---- MODULE Spec2Model ----
(***************************************************************************)
(* Model of src/bot.py: registration, entitlement and delivery of the bot. *)
(*                                                                         *)
(* The state is the PostgreSQL tables the handlers read and write (users,  *)
(* user_cooldowns, user_access, tests, premium_tests), the wall clock,     *)
(* one record per handler invocation in flight (its position between two   *)
(* awaits and its local variables), and the log of documents sent.         *)
(* A handler is a coroutine: it runs atomically from one await to the      *)
(* next, and other handlers run in between.  Every SQL statement is one    *)
(* autocommitted step (no handler opens a transaction).                    *)
(*                                                                         *)
(* Subject names are transliterated: "Matematika", "Informatika" and       *)
(* "Belgisiz" stand for the Cyrillic strings of the source.                *)
(* Time is counted in hours.                                               *)
(***************************************************************************)
EXTENDS Integers, Sequences, FiniteSets, TLC

VARIABLES clock, users, user_cooldowns, user_access, tests, premium_tests,
          req, sent, grants, freshGrant, lastGrant, access0,
          fsm, broadcasts, events, lastEvent

vars == <<clock, users, user_cooldowns, user_access, tests, premium_tests,
          req, sent, grants, freshGrant, lastGrant, access0,
          fsm, broadcasts, events, lastEvent>>

\* The chat side: the FSM storage of the dispatcher (one state and its data
\* per user), the announcements sent out, and the messages, uploads and
\* button presses of the admin handlers received so far, with the last one
\* and the answer it got.
chat == <<fsm, broadcasts, events, lastEvent>>

db == <<users, user_cooldowns, user_access, tests, premium_tests>>

\* History of the run, read by the properties only: the grant commands
\* issued so far, the keys granted and not yet requested, the last grant
\* command and the user_access table as it was at the start.
history == <<grants, freshGrant, lastGrant, access0>>

(*------------------------------ bounds ----------------------------------*)
MaxReq == 2
MaxGrants == 2
MaxQuota == 2
MaxItems == 2
MaxClock == 24
MaxEvents == 4
TickHours == 12

(*------------------------- program constants ----------------------------*)
CooldownHours == 24
OneDayHours == 24
additional_special_tests == 10

\* The handlers only test membership in ADMIN_IDS: one administrator stands
\* for the two of the source.
ADMIN_IDS == {"A1"}
NonAdmins == {"U1", "U2"}
UserIds == ADMIN_IDS \cup NonAdmins

SubjectCodes == {"math", "informatics"}
SubjectNames == {"Matematika", "Informatika"}
SubjectKeys == SubjectCodes \cup SubjectNames \cup {"Belgisiz"}
AccessTypes == {"special"}
Tiers == {"free", "special"}

subject_map(code) ==
    CASE code = "math" -> "Matematika"
      [] code = "informatics" -> "Informatika"
      [] OTHER -> "Belgisiz"

subject_map_reverse(name) ==
    CASE name = "Matematika" -> "math"
      [] name = "Informatika" -> "informatics"
      [] OTHER -> "none"

Req == 1..MaxReq

(*------------------------------ tables ----------------------------------*)
CooldownKeys == UserIds \X SubjectKeys
AccessKeys == UserIds \X SubjectKeys \X AccessTypes

NoCooldownRow == [present |-> FALSE, next_free_time |-> 0, next_special_time |-> 0]
NoAccessRow == [present |-> FALSE, remaining_count |-> 0, last_special_test_id |-> 0]

AccessRow(rc, last) ==
    [present |-> TRUE, remaining_count |-> rc, last_special_test_id |-> last]

PremiumItem(i, subject) == [id |-> i, subject |-> subject, access_type |-> "special"]
FreeItem(i, subject) == [id |-> i, subject |-> subject]

IdleReq == [pc |-> "idle", tier |-> "none", user |-> "none", subject_name |-> "none",
            now |-> 0, remaining_count |-> 0, last_special_test_id |-> 0,
            test_id |-> 0, outcome |-> "none", committed |-> FALSE,
            afterGrant |-> FALSE, dueCooldown |-> FALSE, exhausted |-> FALSE]

NoGrant == [caller |-> "none", target |-> "none", subject |-> "none",
            key |-> <<"none", "none", "none">>, applied |-> FALSE,
            notified |-> FALSE, report |-> "none"]

Min(S) == CHOOSE x \in S : \A y \in S : x <= y

\* FSMContext of a user with no state set and no data stored.
NoSession == [state |-> "none", subject |-> "none", access_type |-> "none",
              announcement_text |-> FALSE]

NoEvent == [user |-> "none", kind |-> "none", arg |-> "none", answer |-> "none"]

InitChat ==
    /\ fsm = [u \in UserIds |-> NoSession]
    /\ broadcasts = <<>>
    /\ events = 0
    /\ lastEvent = NoEvent

(*------------------------------- Init -----------------------------------*)
\* The tables outlive the process (CREATE TABLE IF NOT EXISTS): the model
\* starts from a database that already holds a catalog for the first
\* subject and, possibly, an access row of user U1 under the subject name
\* the delivery handler looks it up by.
InitCommon ==
    /\ clock = 0
    /\ InitChat
    /\ users = {"U1"}
    /\ user_cooldowns = [k \in CooldownKeys |-> NoCooldownRow]
    /\ req = [r \in Req |-> IdleReq]
    /\ sent = <<>>
    /\ grants = 0
    /\ freshGrant = {}
    /\ lastGrant = NoGrant

Init ==
    /\ InitCommon
    /\ \E n \in 0..MaxItems :
          /\ premium_tests = {PremiumItem(i, "Matematika") : i \in 1..n}
          /\ tests = {FreeItem(i, "Matematika") : i \in 1..n}
    /\ \E row \in {NoAccessRow} \cup {AccessRow(q, 0) : q \in 0..MaxQuota} :
          user_access = [k \in AccessKeys |->
                           IF k = <<"U1", "Matematika", "special">> THEN row
                           ELSE NoAccessRow]
    /\ access0 = user_access

(*--------------------------- helper operators ---------------------------*)
SetReq(r, rec) == req' = [req EXCEPT ![r] = rec]

\* The handler returns: its locals other than the count it read are dropped.
Finish(r, res) ==
    SetReq(r, [req[r] EXCEPT !.pc = "done", !.outcome = res,
                             !.last_special_test_id = 0, !.test_id = 0])

\* The documents sent so far to user u for (subject, tier).
SentTo(u, subject, tier) ==
    {i \in DOMAIN sent : /\ sent[i].user = u
                         /\ sent[i].subject = subject
                         /\ sent[i].tier = tier}

\* Has request r been sent a document?
Served(r) == \E i \in DOMAIN sent : sent[i].req = r

\* bot.send_document: the document reaches the chat of the requester.
Delivery(r, id) ==
    [req |-> r, user |-> req[r].user, subject |-> req[r].subject_name,
     tier |-> req[r].tier, id |-> id]

\* A plausible slip: the comparison with the cursor is not strict.
PremiumFrom(subject, access_type, after) ==
    {t.id : t \in {x \in premium_tests :
                      /\ x.subject = subject
                      /\ x.access_type = access_type
                      /\ x.id >= after}}

\* SELECT ... FROM premium_tests WHERE subject=$1 AND access_type=$2 AND id > $3
PremiumAfter(subject, access_type, after) ==
    {t.id : t \in {x \in premium_tests :
                      /\ x.subject = subject
                      /\ x.access_type = access_type
                      /\ x.id > after}}

\* The highest id of the paid partition of a subject, 0 when it is empty.
HighestPremiumId(subject, access_type) ==
    LET ids == PremiumAfter(subject, access_type, 0)
    IN IF ids = {} THEN 0 ELSE CHOOSE x \in ids : \A y \in ids : y <= x

\* SELECT ... FROM tests WHERE subject=$1  (ORDER BY RANDOM() LIMIT 1 picks any)
FreeOf(subject) == {t.id : t \in {x \in tests : x.subject = subject}}

(*------------------------------- clock ----------------------------------*)
Tick ==
    /\ clock + TickHours <= MaxClock
    /\ clock' = clock + TickHours
    /\ UNCHANGED <<db, req, sent, history, chat>>

(*------------------- handle_callback: variant buttons -------------------*)
\* A press of "variant_free_<code>" or "variant_special_<code>": the handler
\* starts, maps the code to the subject name and reads the clock.
PressVariant(r, u, code, tier) ==
    /\ req[r].pc = "idle"
    /\ IF r = 1 THEN TRUE ELSE req[r - 1].pc # "idle"
    /\ SetReq(r, [IdleReq EXCEPT
                    !.pc = IF u \in ADMIN_IDS THEN "admin"
                           ELSE "check_cooldown",
                    !.tier = tier,
                    !.user = u,
                    !.subject_name = subject_map(code),
                    !.now = clock,
                    !.afterGrant = (tier = "special" /\ <<u, code>> \in freshGrant),
                    !.dueCooldown =
                        \E i \in SentTo(u, subject_map(code), tier) :
                            clock < req[sent[i].req].now + CooldownHours,
                    !.exhausted =
                        /\ tier = "special"
                        /\ LET row == user_access[<<u, subject_map(code), "special">>]
                               top == HighestPremiumId(subject_map(code), "special")
                           IN /\ row.present
                              /\ top > 0
                              /\ row.last_special_test_id = top])
    /\ freshGrant' = IF tier = "special" THEN freshGrant \ {<<u, code>>}
                     ELSE freshGrant
    /\ UNCHANGED <<clock, chat, db, sent, grants, lastGrant, access0>>

(*------------------------ handle_special_variant ------------------------*)
\* A plausible slip: the paid-tier check reads the free-tier deadline.
SpecialCheckCooldownWrongColumn(r) ==
    /\ req[r].pc = "check_cooldown" /\ req[r].tier = "special"
    /\ LET cooldown_record == user_cooldowns[<<req[r].user, req[r].subject_name>>]
       IN IF cooldown_record.present /\ req[r].now < cooldown_record.next_free_time
          THEN Finish(r, "CooldownActive")
          ELSE SetReq(r, [req[r] EXCEPT !.pc = "check_access"])
    /\ UNCHANGED <<clock, chat, db, sent, history>>

\* A plausible slip: the quota is looked at before the cooldown.
SpecialCheckQuotaFirst(r) ==
    /\ req[r].pc = "check_cooldown" /\ req[r].tier = "special"
    /\ LET cooldown_record == user_cooldowns[<<req[r].user, req[r].subject_name>>]
           access == user_access[<<req[r].user, req[r].subject_name, "special">>]
       IN IF ~access.present \/ access.remaining_count <= 0
          THEN Finish(r, "QuotaExhausted")
          ELSE IF cooldown_record.present
                    /\ req[r].now < cooldown_record.next_special_time
          THEN Finish(r, "CooldownActive")
          ELSE SetReq(r, [req[r] EXCEPT !.pc = "check_access"])
    /\ UNCHANGED <<clock, chat, db, sent, history>>

SpecialCheckCooldown(r) ==
    /\ req[r].pc = "check_cooldown" /\ req[r].tier = "special"
    /\ LET cooldown_record == user_cooldowns[<<req[r].user, req[r].subject_name>>]
       IN IF cooldown_record.present /\ req[r].now < cooldown_record.next_special_time
          THEN Finish(r, "CooldownActive")
          ELSE SetReq(r, [req[r] EXCEPT !.pc = "check_access"])
    /\ UNCHANGED <<clock, chat, db, sent, history>>

SpecialCheckAccess(r) ==
    /\ req[r].pc = "check_access"
    /\ LET access == user_access[<<req[r].user, req[r].subject_name, "special">>]
       IN IF ~access.present \/ access.remaining_count <= 0
          THEN Finish(r, "QuotaExhausted")
          ELSE SetReq(r, [req[r] EXCEPT
                            !.pc = "select",
                            !.remaining_count = access.remaining_count,
                            !.last_special_test_id = access.last_special_test_id])
    /\ UNCHANGED <<clock, chat, db, sent, history>>

\* A plausible slip: the denial for an exhausted catalog starts a cooldown.
SpecialSelectSetsCooldown(r) ==
    /\ req[r].pc = "select" /\ req[r].tier = "special"
    /\ LET found == PremiumAfter(req[r].subject_name, "special",
                                 req[r].last_special_test_id)
           k == <<req[r].user, req[r].subject_name>>
       IN IF found = {}
          THEN /\ Finish(r, "CatalogExhausted")
               /\ user_cooldowns' =
                     [user_cooldowns EXCEPT ![k] =
                        [present |-> TRUE,
                         next_free_time |-> IF user_cooldowns[k].present
                                            THEN user_cooldowns[k].next_free_time
                                            ELSE clock - OneDayHours,
                         next_special_time |-> req[r].now + CooldownHours]]
          ELSE /\ SetReq(r, [req[r] EXCEPT !.pc = "send", !.test_id = Min(found)])
               /\ UNCHANGED user_cooldowns
    /\ UNCHANGED <<clock, chat, users, user_access, tests, premium_tests, sent, history>>

SpecialSelect(r) ==
    /\ req[r].pc = "select" /\ req[r].tier = "special"
    /\ LET found == PremiumAfter(req[r].subject_name, "special",
                                 req[r].last_special_test_id)
       IN IF found = {}
          THEN Finish(r, "CatalogExhausted")
          ELSE SetReq(r, [req[r] EXCEPT !.pc = "send", !.test_id = Min(found)])
    /\ UNCHANGED <<clock, chat, db, sent, history>>

\* send_document, then safe_edit_text.  Either call may raise; the handler's
\* except clauses then answer with a failure message and return.
SendDocument(r) ==
    /\ req[r].pc = "send"
    /\ \/ /\ sent' = Append(sent, Delivery(r, req[r].test_id))
          /\ \/ SetReq(r, [req[r] EXCEPT !.pc = IF req[r].tier = "special"
                                                THEN "update" ELSE "set_cooldown"])
             \/ Finish(r, "Failed")
       \/ /\ Finish(r, "Failed")
          /\ UNCHANGED sent
    /\ UNCHANGED <<clock, chat, db, history>>

\* UPDATE user_access SET remaining_count = remaining_count - 1,
\*                        last_special_test_id = $1 WHERE <key>
SpecialUpdate(r) ==
    /\ req[r].pc = "update"
    /\ LET k == <<req[r].user, req[r].subject_name, "special">>
           row == user_access[k]
       IN \/ /\ user_access' =
                   IF row.present
                   THEN [user_access EXCEPT ![k] =
                           [row EXCEPT !.remaining_count = row.remaining_count - 1,
                                       !.last_special_test_id = req[r].test_id]]
                   ELSE user_access
             /\ SetReq(r, [req[r] EXCEPT !.pc = "set_cooldown", !.committed = TRUE])
          \/ /\ Finish(r, "Failed")
             /\ UNCHANGED user_access
    /\ UNCHANGED <<clock, chat, users, user_cooldowns, tests, premium_tests, sent, history>>

\* INSERT INTO user_cooldowns ... ON CONFLICT (user_id, subject_name)
\* DO UPDATE SET next_special_time = EXCLUDED.next_special_time
\* The statement either takes effect as the upsert it is written to be or
\* raises (the server rejects it or is unavailable); the except clause then
\* answers with the failure message.
SpecialSetCooldown(r) ==
    /\ req[r].pc = "set_cooldown" /\ req[r].tier = "special"
    /\ LET k == <<req[r].user, req[r].subject_name>>
           row == user_cooldowns[k]
           new_time == req[r].now + CooldownHours
       IN \/ /\ user_cooldowns' =
                   [user_cooldowns EXCEPT ![k] =
                      IF row.present
                      THEN [row EXCEPT !.next_special_time = new_time]
                      ELSE [present |-> TRUE,
                            next_free_time |-> clock - OneDayHours,
                            next_special_time |-> new_time]]
             /\ Finish(r, "Delivered")
          \/ /\ Finish(r, "Failed")
             /\ UNCHANGED user_cooldowns
    /\ UNCHANGED <<clock, chat, users, user_access, tests, premium_tests, sent, history>>

(*------------------ administrator branch of both handlers ----------------*)
\* SELECT ... FROM premium_tests WHERE subject = $1 AND access_type = $2
PremiumOf(subject, access_type) ==
    {t.id : t \in {x \in premium_tests :
                      x.subject = subject /\ x.access_type = access_type}}

\* The partition the administrator branch draws from.
AdminPartition(r) ==
    IF req[r].tier = "free" THEN FreeOf(req[r].subject_name)
    ELSE PremiumOf(req[r].subject_name, "special")

\* A plausible slip: the cooldown check runs before the administrator test.
AdminSelectAfterCooldown(r) ==
    /\ req[r].pc = "admin"
    /\ LET cooldown_record == user_cooldowns[<<req[r].user, req[r].subject_name>>]
           deadline == IF req[r].tier = "free" THEN cooldown_record.next_free_time
                       ELSE cooldown_record.next_special_time
       IN IF cooldown_record.present /\ req[r].now < deadline
          THEN Finish(r, "CooldownActive")
          ELSE IF AdminPartition(r) = {}
          THEN Finish(r, "CatalogExhausted")
          ELSE \E id \in AdminPartition(r) :
                  SetReq(r, [req[r] EXCEPT !.pc = "admin_send", !.test_id = id])
    /\ UNCHANGED <<clock, chat, db, sent, history>>

\* if user_id in ADMIN_IDS: SELECT ... ORDER BY RANDOM() LIMIT 1; with no row
\* the handler answers that the subject has no items and returns.
AdminSelect(r) ==
    /\ req[r].pc = "admin"
    /\ IF AdminPartition(r) = {}
       THEN Finish(r, "CatalogExhausted")
       ELSE \E id \in AdminPartition(r) :
               SetReq(r, [req[r] EXCEPT !.pc = "admin_send", !.test_id = id])
    /\ UNCHANGED <<clock, chat, db, sent, history>>

\* send_document, then safe_edit_text, then return; either call may raise.
AdminSend(r) ==
    /\ req[r].pc = "admin_send"
    /\ \/ /\ sent' = Append(sent, Delivery(r, req[r].test_id))
          /\ \/ Finish(r, "Delivered")
             \/ Finish(r, "Failed")
       \/ /\ Finish(r, "Failed")
          /\ UNCHANGED sent
    /\ UNCHANGED <<clock, chat, db, history>>

(*-------------------------- handle_free_variant -------------------------*)
FreeCheckCooldown(r) ==
    /\ req[r].pc = "check_cooldown" /\ req[r].tier = "free"
    /\ LET cooldown_record == user_cooldowns[<<req[r].user, req[r].subject_name>>]
       IN IF cooldown_record.present /\ req[r].now < cooldown_record.next_free_time
          THEN Finish(r, "CooldownActive")
          ELSE SetReq(r, [req[r] EXCEPT !.pc = "select"])
    /\ UNCHANGED <<clock, chat, db, sent, history>>

FreeSelect(r) ==
    /\ req[r].pc = "select" /\ req[r].tier = "free"
    /\ LET found == FreeOf(req[r].subject_name)
       IN IF found = {}
          THEN Finish(r, "CatalogExhausted")
          ELSE \E id \in found :
                  SetReq(r, [req[r] EXCEPT !.pc = "send", !.test_id = id])
    /\ UNCHANGED <<clock, chat, db, sent, history>>

\* A plausible slip: one deadline for both tiers of the subject.
FreeSetCooldownShared(r) ==
    /\ req[r].pc = "set_cooldown" /\ req[r].tier = "free"
    /\ LET k == <<req[r].user, req[r].subject_name>>
           new_time == req[r].now + CooldownHours
       IN \/ /\ user_cooldowns' =
                   [user_cooldowns EXCEPT ![k] =
                      [present |-> TRUE, next_free_time |-> new_time,
                       next_special_time |-> new_time]]
             /\ Finish(r, "Delivered")
          \/ /\ Finish(r, "Failed")
             /\ UNCHANGED user_cooldowns
    /\ UNCHANGED <<clock, chat, users, user_access, tests, premium_tests, sent, history>>

\* INSERT INTO user_cooldowns ... ON CONFLICT (user_id, subject_name)
\* DO UPDATE SET next_free_time = EXCLUDED.next_free_time
\* As in the paid-tier handler, the statement takes effect or raises.
FreeSetCooldown(r) ==
    /\ req[r].pc = "set_cooldown" /\ req[r].tier = "free"
    /\ LET k == <<req[r].user, req[r].subject_name>>
           row == user_cooldowns[k]
           new_time == req[r].now + CooldownHours
       IN \/ /\ user_cooldowns' =
                   [user_cooldowns EXCEPT ![k] =
                      IF row.present
                      THEN [row EXCEPT !.next_free_time = new_time]
                      ELSE [present |-> TRUE,
                            next_free_time |-> new_time,
                            next_special_time |-> clock - OneDayHours]]
             /\ Finish(r, "Delivered")
          \/ /\ Finish(r, "Failed")
             /\ UNCHANGED user_cooldowns
    /\ UNCHANGED <<clock, chat, users, user_access, tests, premium_tests, sent, history>>


(*------------------------------ send_welcome ----------------------------*)
\* subjects = ["Математика", "Информатика"]
subjects == <<"Matematika", "Informatika">>

\* /start: the handler starts.
StartCommand(r, u) ==
    /\ req[r].pc = "idle"
    /\ IF r = 1 THEN TRUE ELSE req[r - 1].pc # "idle"
    /\ SetReq(r, [IdleReq EXCEPT !.pc = "reg_users", !.user = u, !.now = clock])
    /\ UNCHANGED <<clock, chat, db, sent, history>>

\* INSERT INTO users ... ON CONFLICT (user_id) DO NOTHING; when the statement
\* raises, the except clause reports the failure and the handler returns.
RegisterUser(r) ==
    /\ req[r].pc = "reg_users"
    /\ \/ /\ users' = users \cup {req[r].user}
          /\ SetReq(r, [req[r] EXCEPT !.pc = "reg_fetch", !.test_id = 1,
                                      !.subject_name = subjects[1]])
       \/ /\ Finish(r, "Failed")
          /\ UNCHANGED users
    /\ UNCHANGED <<clock, chat, user_cooldowns, user_access, tests, premium_tests,
                   sent, history>>

\* The loop goes on to the next subject; after the last one the handler
\* sends the welcome text and returns.
NextSubject(r) ==
    IF req[r].test_id < Len(subjects)
    THEN SetReq(r, [req[r] EXCEPT !.pc = "reg_fetch",
                                  !.test_id = req[r].test_id + 1,
                                  !.subject_name = subjects[req[r].test_id + 1]])
    ELSE Finish(r, "Registered")

\* record = SELECT * FROM user_cooldowns WHERE user_id=$1 AND subject_name=$2
RegFetch(r) ==
    /\ req[r].pc = "reg_fetch"
    /\ IF user_cooldowns[<<req[r].user, req[r].subject_name>>].present
       THEN NextSubject(r)
       ELSE SetReq(r, [req[r] EXCEPT !.pc = "reg_insert"])
    /\ UNCHANGED <<clock, chat, db, sent, history>>

\* A plausible slip: the INSERT carries ON CONFLICT ... DO UPDATE SET both times.
RegInsertOverwrites(r) ==
    /\ req[r].pc = "reg_insert"
    /\ LET k == <<req[r].user, req[r].subject_name>>
       IN \/ /\ user_cooldowns' =
                   [user_cooldowns EXCEPT ![k] =
                      [present |-> TRUE,
                       next_free_time |-> clock - OneDayHours,
                       next_special_time |-> clock - OneDayHours]]
             /\ NextSubject(r)
          \/ /\ Finish(r, "Failed")
             /\ UNCHANGED user_cooldowns
    /\ UNCHANGED <<clock, chat, users, user_access, tests, premium_tests, sent, history>>

\* if not record: INSERT INTO user_cooldowns ... VALUES ($1, $2,
\* NOW() - INTERVAL '1 day', NOW() - INTERVAL '1 day').  The statement is
\* outside any try: a row inserted meanwhile makes it raise a unique
\* violation, which ends the handler, as does any other failure of it.
RegInsert(r) ==
    /\ req[r].pc = "reg_insert"
    /\ LET k == <<req[r].user, req[r].subject_name>>
       IN IF user_cooldowns[k].present
          THEN /\ Finish(r, "Conflict")
               /\ UNCHANGED user_cooldowns
          ELSE \/ /\ user_cooldowns' =
                        [user_cooldowns EXCEPT ![k] =
                           [present |-> TRUE,
                            next_free_time |-> clock - OneDayHours,
                            next_special_time |-> clock - OneDayHours]]
                  /\ NextSubject(r)
               \/ /\ Finish(r, "Failed")
                  /\ UNCHANGED user_cooldowns
    /\ UNCHANGED <<clock, chat, users, user_access, tests, premium_tests, sent, history>>

(*-------------------------- admin_grant_access --------------------------*)
GrantSubjects == SubjectNames \cup {"Fizika"}

\* The key the handler passes to the INSERT.
GrantKey(target, subject) == <<target, subject_map_reverse(subject), "special">>

\* A plausible slip: ON CONFLICT overwrites the count instead of adding to it.
GrantUpsertOverwrites(k) ==
    [user_access EXCEPT ![k] = AccessRow(additional_special_tests,
                                         user_access[k].last_special_test_id)]

\* INSERT INTO user_access (...) VALUES ($1, $2, $3, $4, 0)
\* ON CONFLICT (user_id, subject_name, access_type)
\* DO UPDATE SET remaining_count = user_access.remaining_count + EXCLUDED.remaining_count
GrantUpsert(k) ==
    [user_access EXCEPT ![k] =
       IF user_access[k].present
       THEN [user_access[k] EXCEPT
               !.remaining_count = user_access[k].remaining_count
                                     + additional_special_tests]
       ELSE AccessRow(additional_special_tests, 0)]

\* What one run of the handler did: whether the INSERT took effect, whether
\* bot.send_message reached the target, and the answer the caller was given.
GrantResult(caller, target, subject, applied, notified, report) ==
    [caller |-> caller, target |-> target, subject |-> subject,
     key |-> GrantKey(target, subject), applied |-> applied,
     notified |-> notified, report |-> report]

\* A plausible slip: no check of the subject name; an unknown name is stored
\* under the default the delivery handlers use for an unknown code.
admin_grant_access_unvalidated(caller, target, subject) ==
    /\ grants < MaxGrants
    /\ grants' = grants + 1
    /\ LET k == IF subject_map_reverse(subject) = "none"
                THEN <<target, "Belgisiz", "special">>
                ELSE GrantKey(target, subject)
       IN IF caller \notin ADMIN_IDS
          THEN /\ lastGrant' = GrantResult(caller, target, subject, FALSE, FALSE, "denied")
               /\ UNCHANGED <<user_access, freshGrant>>
          ELSE \/ /\ lastGrant' = GrantResult(caller, target, subject, FALSE, FALSE, "failure")
                  /\ UNCHANGED <<user_access, freshGrant>>
               \/ /\ user_access' = GrantUpsert(k)
                  /\ \/ /\ \E notified \in BOOLEAN :
                              lastGrant' = GrantResult(caller, target, subject,
                                                       TRUE, notified, "failure")
                        /\ UNCHANGED freshGrant
                     \/ /\ lastGrant' = GrantResult(caller, target, subject,
                                                    TRUE, TRUE, "success")
                        /\ freshGrant' = freshGrant
                                           \cup {<<target, subject_map_reverse(subject)>>}
    /\ UNCHANGED <<clock, chat, users, user_cooldowns, tests, premium_tests, req, sent,
                   access0>>

\* /grant_access <user_id> <subject>.  The handler issues one SQL statement,
\* then notifies the target, then acknowledges; the statement, the
\* notification or the acknowledgement may raise, and the except clause then
\* reports a failure.
admin_grant_access(caller, target, subject) ==
    /\ grants < MaxGrants
    /\ grants' = grants + 1
    /\ IF caller \notin ADMIN_IDS
       THEN /\ lastGrant' = GrantResult(caller, target, subject, FALSE, FALSE, "denied")
            /\ UNCHANGED <<user_access, freshGrant>>
       ELSE IF subject_map_reverse(subject) = "none"
       THEN /\ lastGrant' = GrantResult(caller, target, subject, FALSE, FALSE, "invalid")
            /\ UNCHANGED <<user_access, freshGrant>>
       ELSE \/ /\ lastGrant' = GrantResult(caller, target, subject, FALSE, FALSE, "failure")
               /\ UNCHANGED <<user_access, freshGrant>>
            \/ /\ user_access' = GrantUpsert(GrantKey(target, subject))
               /\ \/ /\ \E notified \in BOOLEAN :
                           lastGrant' = GrantResult(caller, target, subject,
                                                    TRUE, notified, "failure")
                     /\ UNCHANGED freshGrant
                  \/ /\ lastGrant' = GrantResult(caller, target, subject,
                                                 TRUE, TRUE, "success")
                     /\ freshGrant' = freshGrant
                                        \cup {<<target, subject_map_reverse(subject)>>}
    /\ UNCHANGED <<clock, chat, users, user_cooldowns, tests, premium_tests, req, sent,
                   access0>>

(*---------------- admin commands with a dialogue: FSM handlers ------------*)
\* What the handler answered to the message, upload or button press.
Answer(u, kind, arg, text) ==
    lastEvent' = [user |-> u, kind |-> kind, arg |-> arg, answer |-> text]

\* state.clear(): the state and the stored data of the user are dropped.
Clear(u) == fsm' = [fsm EXCEPT ![u] = NoSession]

\* The id a SERIAL column gives the next row of a table.
NextId(table) ==
    IF table = {} THEN 1
    ELSE 1 + (CHOOSE x \in {t.id : t \in table} : \A t \in table : t.id <= x)

\* /add_test <subject>: after the checks the handler asks for the file and
\* then calls AnnouncementStates.waiting_for_text.set(); a State of
\* aiogram.fsm.state has no such method, the call raises, and neither the
\* state nor the data (subject, access_type) is stored.
admin_add_test(u, subject) ==
    /\ Answer(u, "add_test", subject,
              IF u \notin ADMIN_IDS THEN "denied"
              ELSE IF subject_map_reverse(subject) = "none" THEN "invalid"
              ELSE "upload")
    /\ UNCHANGED <<fsm, broadcasts, tests, premium_tests>>

\* /add_prem_test <subject>: as admin_add_test.
admin_add_prem_test(u, subject) ==
    /\ Answer(u, "add_prem_test", subject,
              IF u \notin ADMIN_IDS THEN "denied"
              ELSE IF subject_map_reverse(subject) = "none" THEN "invalid"
              ELSE "upload")
    /\ UNCHANGED <<fsm, broadcasts, tests, premium_tests>>

\* A plausible slip: /announce without the test of ADMIN_IDS.
cmd_announce_open(u) ==
    /\ Answer(u, "announce", "none", "write_text")
    /\ fsm' = [fsm EXCEPT ![u].state = "waiting_for_text"]
    /\ UNCHANGED <<broadcasts, tests, premium_tests>>

\* /announce
cmd_announce(u) ==
    /\ IF u \notin ADMIN_IDS
       THEN /\ Answer(u, "announce", "none", "denied")
            /\ UNCHANGED fsm
       ELSE /\ Answer(u, "announce", "none", "write_text")
            /\ fsm' = [fsm EXCEPT ![u].state = "waiting_for_text"]
    /\ UNCHANGED <<broadcasts, tests, premium_tests>>

\* Any message of a user in state waiting_for_text.
receive_announcement_text(u, kind) ==
    /\ Answer(u, kind, "none", "photo_or_skip")
    /\ fsm' = [fsm EXCEPT ![u].announcement_text = (kind = "text"),
                          ![u].state = "waiting_for_photo"]
    /\ UNCHANGED <<broadcasts, tests, premium_tests>>

\* A document or photo of a user in state waiting_for_text.
receive_test_file(u, kind) ==
    IF u \notin ADMIN_IDS
    THEN /\ Answer(u, kind, "none", "denied")
         /\ UNCHANGED <<fsm, broadcasts, tests, premium_tests>>
    ELSE IF fsm[u].access_type = "free"
    THEN /\ UNCHANGED <<broadcasts, premium_tests>>
         /\ \/ /\ tests' = tests \cup {FreeItem(NextId(tests), fsm[u].subject)}
               /\ Answer(u, kind, "none", "added")
               /\ Clear(u)
            \/ /\ Answer(u, kind, "none", "failure")
               /\ UNCHANGED <<tests, fsm>>
    ELSE IF fsm[u].access_type = "special"
    THEN /\ UNCHANGED <<broadcasts, tests>>
         /\ \/ /\ premium_tests' = premium_tests
                      \cup {PremiumItem(NextId(premium_tests), fsm[u].subject)}
               /\ Answer(u, kind, "none", "added")
               /\ Clear(u)
            \/ /\ Answer(u, kind, "none", "failure")
               /\ UNCHANGED <<premium_tests, fsm>>
    ELSE /\ Answer(u, kind, "none", "unknown_access_type")
         /\ UNCHANGED <<fsm, broadcasts, tests, premium_tests>>

\* A document, photo, video or audio no earlier handler took.
handle_admin_files(u, kind) ==
    /\ Answer(u, kind, "none", IF u \notin ADMIN_IDS THEN "none" ELSE "file_id")
    /\ UNCHANGED <<fsm, broadcasts, tests, premium_tests>>

\* SELECT user_id FROM users, then one send per user, then the report and
\* state.clear(); when the SELECT raises, the failure answer and state.clear().
proceed_with_announcement(u, kind, photo) ==
    /\ \/ /\ broadcasts' = Append(broadcasts,
                                  [by |-> u, to |-> users, photo |-> photo,
                                   text |-> fsm[u].announcement_text])
          /\ Answer(u, kind, "none", "sent")
       \/ /\ Answer(u, kind, "none", "failure")
          /\ UNCHANGED broadcasts
    /\ Clear(u)
    /\ UNCHANGED <<tests, premium_tests>>

\* The buttons add_photo and skip_photo of a user in state waiting_for_photo.
receive_announcement_photo(u, data) ==
    IF data = "add_photo"
    THEN /\ Answer(u, data, "none", "upload_photo")
         /\ UNCHANGED <<fsm, broadcasts, tests, premium_tests>>
    ELSE proceed_with_announcement(u, data, FALSE)

MessageKinds == {"add_test", "add_prem_test", "announce", "text", "document", "photo"}
CallbackData == {"add_photo", "skip_photo"}

\* The message observer: the handlers are tried in the order in which
\* admin_commands_setup registered them, and the first whose filters pass
\* takes the message.
OnMessage(u, kind, arg) ==
    /\ events < MaxEvents
    /\ events' = events + 1
    /\ arg \in (IF kind \in {"add_test", "add_prem_test"} THEN GrantSubjects
                ELSE {"none"})
    /\ IF kind = "add_test" THEN admin_add_test(u, arg)
       ELSE IF kind = "add_prem_test" THEN admin_add_prem_test(u, arg)
       ELSE IF kind = "announce" THEN cmd_announce(u)
       ELSE IF fsm[u].state = "waiting_for_text"
       THEN receive_announcement_text(u, kind)
       ELSE IF kind \in {"document", "photo"} /\ fsm[u].state = "waiting_for_text"
       THEN receive_test_file(u, kind)
       ELSE IF kind \in {"document", "photo"}
       THEN handle_admin_files(u, kind)
       ELSE /\ Answer(u, kind, arg, "none")
            /\ UNCHANGED <<fsm, broadcasts, tests, premium_tests>>
    /\ UNCHANGED <<clock, users, user_cooldowns, user_access, req, sent, history>>

\* The callback observer: receive_announcement_photo is registered before
\* handle_callback, which answers an unknown payload with a notice.
OnCallback(u, data) ==
    /\ events < MaxEvents
    /\ events' = events + 1
    /\ IF fsm[u].state = "waiting_for_photo"
       THEN receive_announcement_photo(u, data)
       ELSE /\ Answer(u, data, "none", "unknown")
            /\ UNCHANGED <<fsm, broadcasts, tests, premium_tests>>
    /\ UNCHANGED <<clock, users, user_cooldowns, user_access, req, sent, history>>

(*--------------------------- specifications -----------------------------*)
DeliveryStep(r) ==
    \/ \E tier \in Tiers : PressVariant(r, "U1", "math", tier)
    \/ SpecialCheckCooldown(r)
    \/ SpecialCheckAccess(r)
    \/ SpecialSelect(r)
    \/ SendDocument(r)
    \/ SpecialUpdate(r)
    \/ SpecialSetCooldown(r)
    \/ FreeCheckCooldown(r)
    \/ FreeSelect(r)
    \/ FreeSetCooldown(r)

NextDelivery == Tick \/ \E r \in Req : DeliveryStep(r)

SpecDelivery == Init /\ [][NextDelivery]_vars

\* The database the grant runs start from: U1 may hold an access row under
\* the subject name and one under the subject code.
InitGrant ==
    /\ InitCommon
    /\ premium_tests = {PremiumItem(i, "Matematika") : i \in 1..MaxItems}
    /\ tests = {}
    /\ \E rowN \in {NoAccessRow, AccessRow(0, 0), AccessRow(1, 0)},
          rowC \in {NoAccessRow} \cup
                   {AccessRow(q, c) : q \in 0..MaxQuota, c \in 0..MaxItems} :
          user_access = [k \in AccessKeys |->
                           IF k = <<"U1", "Matematika", "special">> THEN rowN
                           ELSE IF k = <<"U1", "math", "special">> THEN rowC
                           ELSE NoAccessRow]
    /\ access0 = user_access

GrantStep ==
    \E target \in NonAdmins, subject \in GrantSubjects :
        admin_grant_access("A1", target, subject)

SpecialStep(r) ==
    \/ PressVariant(r, "U1", "math", "special")
    \/ SpecialCheckCooldown(r)
    \/ SpecialCheckAccess(r)
    \/ SpecialSelect(r)
    \/ SendDocument(r)
    \/ SpecialUpdate(r)
    \/ SpecialSetCooldown(r)

\* Grants interleaved with the steps of one paid-tier request of U1.
NextGrant == GrantStep \/ SpecialStep(1)

SpecGrant == InitGrant /\ [][NextGrant]_vars

\* One more overlapping paid-tier request than the delivery runs have: the
\* same button pressed again while the earlier handlers are still running.
CursorReq == 1..(MaxReq + 1)

\* U1 holds a paid-tier record with the cursor at 0 and the catalog is full.
InitCursor ==
    /\ clock = 0
    /\ InitChat
    /\ users = {"U1"}
    /\ user_cooldowns = [k \in CooldownKeys |-> NoCooldownRow]
    /\ req = [r \in CursorReq |-> IdleReq]
    /\ sent = <<>>
    /\ grants = 0
    /\ freshGrant = {}
    /\ lastGrant = NoGrant
    /\ premium_tests = {PremiumItem(i, "Matematika") : i \in 1..MaxItems}
    /\ tests = {}
    /\ \E q \in 0..MaxQuota :
          user_access = [k \in AccessKeys |->
                           IF k = <<"U1", "Matematika", "special">>
                           THEN AccessRow(q, 0)
                           ELSE NoAccessRow]
    /\ access0 = user_access

NextCursor == \E r \in CursorReq : SpecialStep(r)

SpecCursor == InitCursor /\ [][NextCursor]_vars

\* The database the administrator runs start from: a catalog, and rows of
\* the administrator left from a time the account was an ordinary user (an
\* active or an expired cooldown, a paid record with or without quota).
InitAdmin ==
    /\ clock = 0
    /\ InitChat
    /\ users = {"A1"}
    /\ req = [r \in Req |-> IdleReq]
    /\ sent = <<>>
    /\ grants = 0
    /\ freshGrant = {}
    /\ lastGrant = NoGrant
    /\ \E n \in 0..MaxItems :
          /\ premium_tests = {PremiumItem(i, "Matematika") : i \in 1..n}
          /\ tests = {FreeItem(i, "Matematika") : i \in 1..n}
    /\ \E row \in {NoCooldownRow,
                    [present |-> TRUE, next_free_time |-> CooldownHours,
                     next_special_time |-> CooldownHours]} :
          user_cooldowns = [k \in CooldownKeys |->
                              IF k = <<"A1", "Matematika">> THEN row
                              ELSE NoCooldownRow]
    /\ \E row \in {NoAccessRow} \cup {AccessRow(q, 0) : q \in 0..MaxQuota} :
          user_access = [k \in AccessKeys |->
                           IF k = <<"A1", "Matematika", "special">> THEN row
                           ELSE IF k = <<"U1", "Matematika", "special">>
                           THEN AccessRow(1, 0)
                           ELSE NoAccessRow]
    /\ access0 = user_access

AdminStep(r) ==
    \/ \E tier \in Tiers : PressVariant(r, "A1", "math", tier)
    \/ AdminSelect(r)
    \/ AdminSend(r)

NextAdmin == Tick \/ \E r \in Req : AdminStep(r)

SpecAdmin == InitAdmin /\ [][NextAdmin]_vars

\* The database the registration runs start from: U1 may be registered
\* already, with a cooldown running for the first subject and a paid record.
InitRegister ==
    /\ clock = 0
    /\ InitChat
    /\ req = [r \in Req |-> IdleReq]
    /\ sent = <<>>
    /\ grants = 0
    /\ freshGrant = {}
    /\ lastGrant = NoGrant
    /\ tests = {}
    /\ premium_tests = {}
    /\ \E registered \in BOOLEAN :
          /\ users = IF registered THEN {"U1"} ELSE {}
          /\ \E row \in {NoCooldownRow,
                          [present |-> TRUE, next_free_time |-> CooldownHours,
                           next_special_time |-> -OneDayHours]} :
                user_cooldowns = [k \in CooldownKeys |->
                                    IF k = <<"U1", "Matematika">> THEN row
                                    ELSE IF k = <<"U1", "Informatika">> /\ registered
                                    THEN [present |-> TRUE,
                                          next_free_time |-> -OneDayHours,
                                          next_special_time |-> -OneDayHours]
                                    ELSE NoCooldownRow]
    /\ \E row \in {NoAccessRow} \cup {AccessRow(q, 0) : q \in 0..MaxQuota} :
          user_access = [k \in AccessKeys |->
                           IF k = <<"U1", "Matematika", "special">> THEN row
                           ELSE NoAccessRow]
    /\ access0 = user_access

RegisterStep(r) ==
    \/ StartCommand(r, "U1")
    \/ RegisterUser(r)
    \/ RegFetch(r)
    \/ RegInsert(r)

NextRegister == Tick \/ \E r \in Req : RegisterStep(r)

SpecRegister == InitRegister /\ [][NextRegister]_vars

\* The free-tier run: a free catalog with the item ids 1, 2, 3 and one press
\* of the free button more than there are items.
ScenarioItems == 1..3
FreeReq == 1..(Cardinality(ScenarioItems) + 1)

InitFree ==
    /\ clock = 0
    /\ InitChat
    /\ users = {"U1"}
    /\ user_cooldowns =
          [k \in CooldownKeys |->
             IF k[1] = "U1" /\ k[2] \in SubjectNames
             THEN [present |-> TRUE, next_free_time |-> -OneDayHours,
                   next_special_time |-> -OneDayHours]
             ELSE NoCooldownRow]
    /\ user_access = [k \in AccessKeys |-> NoAccessRow]
    /\ tests = {FreeItem(i, "Matematika") : i \in ScenarioItems}
    /\ premium_tests = {}
    /\ req = [r \in FreeReq |-> IdleReq]
    /\ sent = <<>>
    /\ grants = 0
    /\ freshGrant = {}
    /\ lastGrant = NoGrant
    /\ access0 = user_access

\* A day goes by while no handler is running.
DayPasses ==
    /\ \A r \in FreeReq : req[r].pc \in {"idle", "done"}
    /\ clock < CooldownHours * Cardinality(ScenarioItems)
    /\ clock' = clock + CooldownHours
    /\ UNCHANGED <<db, req, sent, history, chat>>

\* U1 presses the free button again, a cooldown period or more after the
\* press before and with no earlier handler still running.
PressFreeSpaced(r) ==
    /\ \A q \in FreeReq : req[q].pc \in {"idle", "done"}
    /\ IF r = 1 THEN TRUE ELSE clock >= req[r - 1].now + CooldownHours
    /\ PressVariant(r, "U1", "math", "free")

FreeStep(r) ==
    \/ PressFreeSpaced(r)
    \/ FreeCheckCooldown(r)
    \/ FreeSelect(r)
    \/ SendDocument(r)
    \/ FreeSetCooldown(r)

NextFree == DayPasses \/ \E r \in FreeReq : FreeStep(r)

SpecFree == InitFree /\ [][NextFree]_vars

\* The database the two-subject runs start from: a catalog and a paid record
\* of U1 for each subject, and the cooldown rows of a registered user or none.
InitSubjects ==
    /\ clock = 0
    /\ InitChat
    /\ users = {"U1"}
    /\ req = [r \in Req |-> IdleReq]
    /\ sent = <<>>
    /\ grants = 0
    /\ freshGrant = {}
    /\ lastGrant = NoGrant
    /\ premium_tests = {PremiumItem(1, "Matematika"), PremiumItem(2, "Informatika")}
    /\ tests = {FreeItem(1, "Matematika"), FreeItem(2, "Informatika")}
    /\ \E registered \in BOOLEAN :
          user_cooldowns =
             [k \in CooldownKeys |->
                IF registered /\ k[1] = "U1" /\ k[2] \in SubjectNames
                THEN [present |-> TRUE, next_free_time |-> -OneDayHours,
                      next_special_time |-> -OneDayHours]
                ELSE NoCooldownRow]
    /\ user_access = [k \in AccessKeys |->
                        IF k[1] = "U1" /\ k[2] \in SubjectNames
                        THEN AccessRow(MaxQuota, 0)
                        ELSE NoAccessRow]
    /\ access0 = user_access

SubjectsStep(r) ==
    \/ \E code \in SubjectCodes, tier \in Tiers : PressVariant(r, "U1", code, tier)
    \/ SpecialCheckCooldown(r)
    \/ SpecialCheckAccess(r)
    \/ SpecialSelect(r)
    \/ SendDocument(r)
    \/ SpecialUpdate(r)
    \/ SpecialSetCooldown(r)
    \/ FreeCheckCooldown(r)
    \/ FreeSelect(r)
    \/ FreeSetCooldown(r)

NextSubjects == Tick \/ \E r \in Req : SubjectsStep(r)

SpecSubjects == InitSubjects /\ [][NextSubjects]_vars

\* The database the admin dialogues start from: two registered users, a
\* catalog under the subject name, and a paid record of U1.
InitDialogue ==
    /\ clock = 0
    /\ InitChat
    /\ users = {"U1", "U2"}
    /\ user_cooldowns = [k \in CooldownKeys |-> NoCooldownRow]
    /\ req = [r \in Req |-> IdleReq]
    /\ sent = <<>>
    /\ grants = 0
    /\ freshGrant = {}
    /\ lastGrant = NoGrant
    /\ \E n \in 0..MaxItems :
          /\ premium_tests = {PremiumItem(i, "Matematika") : i \in 1..n}
          /\ tests = {FreeItem(i, "Matematika") : i \in 1..n}
    /\ user_access = [k \in AccessKeys |->
                        IF k = <<"U1", "Matematika", "special">>
                        THEN AccessRow(1, 0)
                        ELSE NoAccessRow]
    /\ access0 = user_access

NextDialogue ==
    \/ \E u \in UserIds, kind \in MessageKinds, arg \in GrantSubjects \cup {"none"} :
          OnMessage(u, kind, arg)
    \/ \E u \in UserIds, data \in CallbackData : OnCallback(u, data)
    \/ \E caller \in UserIds, subject \in {"Matematika", "Fizika"} :
          admin_grant_access(caller, "U1", subject)

SpecDialogue == InitDialogue /\ [][NextDialogue]_vars

\* Every user at the keyboard: U1 is registered and holds a paid record, U2
\* has never started the bot.
InitActors ==
    /\ clock = 0
    /\ InitChat
    /\ users = {"U1"}
    /\ user_cooldowns = [k \in CooldownKeys |-> NoCooldownRow]
    /\ req = [r \in Req |-> IdleReq]
    /\ sent = <<>>
    /\ grants = 0
    /\ freshGrant = {}
    /\ lastGrant = NoGrant
    /\ premium_tests = {PremiumItem(i, "Matematika") : i \in 1..MaxItems}
    /\ tests = {}
    /\ user_access = [k \in AccessKeys |->
                        IF k = <<"U1", "Matematika", "special">>
                        THEN AccessRow(1, 0)
                        ELSE NoAccessRow]
    /\ access0 = user_access

\* The first handler run is a paid-tier press of U1 or the /start of U2.
ActorStep ==
    \/ PressVariant(1, "U1", "math", "special")
    \/ SpecialCheckCooldown(1)
    \/ SpecialCheckAccess(1)
    \/ SpecialSelect(1)
    \/ SendDocument(1)
    \/ SpecialUpdate(1)
    \/ SpecialSetCooldown(1)
    \/ StartCommand(1, "U2")
    \/ RegisterUser(1)
    \/ RegFetch(1)
    \/ RegInsert(1)

NextActors ==
    \/ \E u \in UserIds, kind \in MessageKinds, arg \in GrantSubjects \cup {"none"} :
          OnMessage(u, kind, arg)
    \/ \E u \in UserIds, data \in CallbackData : OnCallback(u, data)
    \/ \E caller \in NonAdmins, subject \in {"Matematika", "Fizika"} :
          admin_grant_access(caller, caller, subject)
    \/ ActorStep

SpecActors == InitActors /\ [][NextActors]_vars

\* Strictly sequential paid-tier presses of U1: a press only when no earlier
\* handler is still running.  U1 holds a paid record with the cursor at 0.
InitSequential ==
    /\ InitCommon
    /\ \E n \in 0..MaxItems :
          premium_tests = {PremiumItem(i, "Matematika") : i \in 1..n}
    /\ tests = {}
    /\ \E q \in 1..MaxQuota :
          user_access = [k \in AccessKeys |->
                           IF k = <<"U1", "Matematika", "special">>
                           THEN AccessRow(q, 0)
                           ELSE NoAccessRow]
    /\ access0 = user_access

\* A row is added to premium_tests between two presses: id SERIAL PRIMARY KEY
\* gives it the next id of the table, whatever its subject.
InsertPremium(subject) ==
    /\ \A q \in Req : req[q].pc \in {"idle", "done"}
    /\ NextId(premium_tests) <= MaxItems + 1
    /\ premium_tests' = premium_tests
                           \cup {PremiumItem(NextId(premium_tests), subject)}
    /\ UNCHANGED <<clock, chat, users, user_cooldowns, user_access, tests,
                   req, sent, history>>

PressSequential(r) ==
    /\ \A q \in Req : req[q].pc \in {"idle", "done"}
    /\ PressVariant(r, "U1", "math", "special")

SequentialStep(r) ==
    \/ PressSequential(r)
    \/ SpecialCheckCooldown(r)
    \/ SpecialCheckAccess(r)
    \/ SpecialSelect(r)
    \/ SendDocument(r)
    \/ SpecialUpdate(r)
    \/ SpecialSetCooldown(r)

NextSequential ==
    \/ Tick
    \/ \E subject \in SubjectNames : InsertPremium(subject)
    \/ \E r \in Req : SequentialStep(r)

SpecSequential == InitSequential /\ [][NextSequential]_vars

(*============================ properties ================================*)
NonAdminDeliveries == {i \in DOMAIN sent : sent[i].user \notin ADMIN_IDS}

SameKey(r1, r2) ==
    /\ req[r1].user = req[r2].user
    /\ req[r1].subject_name = req[r2].subject_name
    /\ req[r1].tier = req[r2].tier

Quiescent == \A r \in Req : req[r].pc \in {"idle", "done"}

\* C1: for every non-privileged user and every (subject, tier), the item ids
\* sent to that user, in the order they were sent, are strictly increasing
\* (so no item is sent twice).
C1_NoDoubleDelivery ==
    \A i, j \in NonAdminDeliveries :
        ( /\ i < j
          /\ sent[i].user = sent[j].user
          /\ sent[i].subject = sent[j].subject
          /\ sent[i].tier = sent[j].tier )
        => sent[i].id < sent[j].id

\* C2: two requests for the same (user, subject, tier) never both pass the
\* quota check on the same remaining_count value (1 in particular) and both
\* commit: of K overlapping requests that read the same count, one succeeds.
C2_ConcurrencySafety ==
    \A r1, r2 \in Req :
        ( /\ r1 # r2
          /\ req[r1].tier = "special"
          /\ SameKey(r1, r2)
          /\ req[r1].committed /\ req[r2].committed )
        => req[r1].remaining_count # req[r2].remaining_count

\* C3: remaining_count of every entitlement record is >= 0 in every state.
C3_RemainingCountNonNegative ==
    \A k \in AccessKeys : user_access[k].remaining_count >= 0

\* C4: with no request in flight and no grant on the record, a record that
\* started at remaining_count = Q and whose user has been sent N items of
\* that (subject, tier) holds remaining_count = Q - N.
C4_QuotaConservation ==
    \A k \in AccessKeys :
        ( /\ Quiescent
          /\ k[1] \notin ADMIN_IDS
          /\ access0[k].present
          /\ lastGrant.key # k )
        => user_access[k].remaining_count =
              access0[k].remaining_count - Cardinality(SentTo(k[1], k[2], k[3]))

\* C5: a finished paid-tier request has applied all of its ledger effects
\* (count decremented, cursor set, cooldown deadline set) or none: a request
\* that ended in a failure has not changed the entitlement record.
C5_AllOrNothing ==
    \A r \in Req :
        (req[r].pc = "done" /\ req[r].tier = "special" /\ req[r].user \notin ADMIN_IDS)
        => (req[r].committed <=> req[r].outcome = "Delivered")

\* C6: an item has been sent to a non-privileged user only if the ledger
\* commit of that request has succeeded (paid tier: the entitlement update).
C6_CommitPrecedesDeliver ==
    \A i \in NonAdminDeliveries :
        sent[i].tier = "special" => req[sent[i].req].committed

\* C9: a request made by a user after an item of the same (subject, tier)
\* was sent to them at request time t, and before t + 24 hours, ends denied
\* with CooldownActive.
C9_CooldownEnforced ==
    \A r \in Req :
        (req[r].pc = "done" /\ req[r].dueCooldown)
        => req[r].outcome = "CooldownActive"

\* C7: a paid-tier request made by U for subject S right after a successful
\* /grant_access for U and S is not denied with QuotaExhausted.
C7_GrantEnablesDelivery ==
    \A r \in Req : req[r].afterGrant => req[r].outcome # "QuotaExhausted"

\* What one applied grant does to the tables.
C8_GrantStep ==
    (grants' # grants /\ lastGrant'.applied) =>
        LET k == lastGrant'.key
        IN /\ user_access'[k].present
           /\ user_access[k].present =>
                 /\ user_access'[k].remaining_count =
                       user_access[k].remaining_count + additional_special_tests
                 /\ user_access'[k].last_special_test_id =
                       user_access[k].last_special_test_id
           /\ ~user_access[k].present =>
                 /\ user_access'[k].remaining_count = additional_special_tests
                 /\ user_access'[k].last_special_test_id = 0
           /\ \A k2 \in AccessKeys \ {k} : user_access'[k2] = user_access[k2]
           /\ UNCHANGED <<user_cooldowns, tests, premium_tests>>

CooldownActiveFor(r) ==
    LET row == user_cooldowns[<<req[r].user, req[r].subject_name>>]
    IN /\ row.present
       /\ req[r].now < (IF req[r].tier = "free" THEN row.next_free_time
                        ELSE row.next_special_time)

C10_Step ==
    \A r \in Req :
        ( /\ req[r].pc = "check_cooldown"
          /\ req[r].user \notin ADMIN_IDS
          /\ CooldownActiveFor(r)
          /\ req'[r] # req[r] )
        => /\ req'[r].pc = "done"
           /\ req'[r].outcome = "CooldownActive"
           /\ sent' = sent
           /\ UNCHANGED db

C10_Denied ==
    \A r \in Req :
        req[r].outcome = "CooldownActive" => ~Served(r) /\ ~req[r].committed

\* C10: a non-privileged request whose cooldown check finds now < the stored
\* deadline of its (user, subject, tier) ends denied with CooldownActive in
\* that step, is never sent an item, and changes no table.
C10_CooldownDenies == [][C10_Step]_vars /\ []C10_Denied

\* A request made after a delivery, inside the cooldown window, was denied.
C10_Witness ==
    \E r \in Req : req[r].outcome = "CooldownActive" /\ req[r].dueCooldown

C13_CommitRevalidates ==
    [][\A r \in Req :
          LET row == user_access[<<req[r].user, req[r].subject_name, "special">>]
          IN ( /\ req[r].pc = "update"
               /\ req'[r] # req[r]
               /\ row.present
               /\ (row.remaining_count <= 0
                     \/ req[r].test_id <= row.last_special_test_id) )
             => /\ user_access' = user_access
                /\ ~req'[r].committed]_vars

\* C19: when one grant of 10 for (U1, Matematika) has taken effect and U1's
\* one paid request for the subject has ended Delivered, in whatever order
\* their steps ran, the entitlement record of U1 for the subject (looked up
\* by the name the delivery uses or by the code the grant uses) holds the
\* initial remaining_count + 10 - 1.
C19_GrantNotLost ==
    ( /\ grants = 1
      /\ lastGrant.applied
      /\ lastGrant.target = "U1"
      /\ lastGrant.subject = "Matematika"
      /\ req[1].outcome = "Delivered" )
    => \E k \in {<<"U1", "Matematika", "special">>, <<"U1", "math", "special">>} :
          /\ user_access[k].present
          /\ user_access[k].remaining_count
                = access0[k].remaining_count + additional_special_tests - 1

\* C20: a grant command of an administrator that names a subject outside
\* the configured ones is answered as invalid, notifies nobody and leaves
\* every access row as it was.
C20_Step ==
    ( /\ grants' = grants + 1
      /\ lastGrant'.caller \in ADMIN_IDS
      /\ lastGrant'.subject \notin SubjectNames )
    => /\ lastGrant'.report = "invalid"
       /\ ~lastGrant'.notified
       /\ ~lastGrant'.applied
       /\ user_access' = user_access
       /\ freshGrant' = freshGrant

C20_InvalidSubject == [][C20_Step]_vars

C20_Witness ==
    /\ lastGrant.report = "invalid"
    /\ lastGrant.subject = "Fizika"
    /\ \E k \in AccessKeys : user_access[k].present

\* C14 as stated: a paid-tier request made when the cursor of the user's
\* record equals the highest item id of the partition ends with
\* CatalogExhausted, whatever remaining_count is.
C14_ExhaustedAlwaysCatalog ==
    \A r \in Req :
        (req[r].pc = "done" /\ req[r].exhausted)
           => req[r].outcome = "CatalogExhausted"

\* C14, amended: a paid-tier request that has passed the cooldown check and
\* the quota check (remaining_count > 0) and has read a cursor that is the
\* highest item id of the partition or beyond it (or the partition is empty)
\* ends with CatalogExhausted: nothing is sent and no table changes; a
\* request that has read a smaller cursor goes on to the send.
C14_Step ==
    \A r \in Req :
        ( /\ req[r].pc = "select"
          /\ req[r].tier = "special"
          /\ req'[r] # req[r] )
        => IF req[r].last_special_test_id
                >= HighestPremiumId(req[r].subject_name, "special")
           THEN /\ req'[r].pc = "done"
                /\ req'[r].outcome = "CatalogExhausted"
                /\ sent' = sent
                /\ db' = db
           ELSE req'[r].pc = "send"

C14_CatalogExhausted == [][C14_Step]_vars

C14_Witness ==
    \E r \in Req :
        /\ req[r].tier = "special"
        /\ req[r].outcome = "CatalogExhausted"
        /\ req[r].exhausted
        /\ req[r].remaining_count > 0
        /\ HighestPremiumId(req[r].subject_name, "special") > 0

\* C12: in every step, the cursor (last_special_test_id) of every access
\* row stays or grows; no step lowers it or removes the row.
C12_CursorMonotone ==
    [][\A k \in AccessKeys :
          user_access[k].present =>
             /\ user_access'[k].present
             /\ user_access'[k].last_special_test_id
                   >= user_access[k].last_special_test_id]_vars

\* C15: every step of an administrator's delivery request leaves all four
\* tables unchanged; the request is never denied for cooldown or quota; with
\* a non-empty partition it goes on to send an item of the partition, and it
\* ends Delivered exactly when the document was sent and the menu refreshed.
C15_Step ==
    \A r \in Req :
        (req'[r].user \in ADMIN_IDS /\ req'[r] # req[r])
        => /\ db' = db
           /\ req'[r].outcome \notin {"CooldownActive", "QuotaExhausted"}
           /\ req[r].pc = "admin" =>
                 IF AdminPartition(r) = {}
                 THEN req'[r].outcome = "CatalogExhausted" /\ sent' = sent
                 ELSE /\ req'[r].pc = "admin_send"
                      /\ req'[r].test_id \in AdminPartition(r)
           /\ req'[r].outcome = "Delivered" =>
                 sent' = Append(sent, Delivery(r, req[r].test_id))

C15_PrivilegedBypass == [][C15_Step]_vars

C15_Witness ==
    \E r \in Req :
        /\ req[r].user \in ADMIN_IDS
        /\ req[r].tier = "special"
        /\ req[r].outcome = "Delivered"
        /\ user_cooldowns[<<"A1", "Matematika">>].present
        /\ req[r].now < user_cooldowns[<<"A1", "Matematika">>].next_special_time
        /\ user_access[<<"A1", "Matematika", "special">>].remaining_count = 0
        /\ user_access = access0

\* C17: a step of a /start handler never changes or removes an existing
\* users, user_cooldowns or user_access row (deadlines and quotas stay as
\* they are); a handler that ran to its end leaves the user in users and a
\* cooldown row for each configured subject; and so do overlapping handlers
\* once all of them have ended, none on a failed statement.
C17_Step ==
    \A r \in Req :
        (req[r].pc \in {"reg_users", "reg_fetch", "reg_insert"} /\ req'[r] # req[r])
        => /\ users \subseteq users'
           /\ users' \subseteq users \cup {req[r].user}
           /\ user_access' = user_access
           /\ \A k \in CooldownKeys :
                 IF user_cooldowns[k].present \/ k[1] # req[r].user
                 THEN user_cooldowns'[k] = user_cooldowns[k]
                 ELSE user_cooldowns'[k].present =>
                         /\ k[2] \in SubjectNames
                         /\ user_cooldowns'[k].next_free_time <= clock
                         /\ user_cooldowns'[k].next_special_time <= clock

RegisteredRows(u) ==
    /\ u \in users
    /\ \A subj \in SubjectNames : user_cooldowns[<<u, subj>>].present

C17_Done ==
    /\ \A r \in Req : req[r].outcome = "Registered" => RegisteredRows(req[r].user)
    /\ ( /\ req[1].pc = "done"
         /\ \A r \in Req : req[r].pc \in {"idle", "done"}
         /\ \A r \in Req : req[r].outcome # "Failed" )
       => RegisteredRows("U1")

C17_RegistrationIdempotent == [][C17_Step]_vars /\ []C17_Done

C17_Witness ==
    /\ \E r \in Req : req[r].outcome = "Conflict"
    /\ \E r \in Req : req[r].outcome = "Registered"
    /\ user_cooldowns[<<"U1", "Matematika">>].next_free_time = CooldownHours
    /\ user_cooldowns[<<"U1", "Informatika">>].present
    /\ user_access = access0
    /\ user_access[<<"U1", "Matematika", "special">>].remaining_count > 0

\* C16: with the free catalog 1, 2, 3 and requests spaced by the cooldown,
\* the first three requests, each one Delivered, are sent the items 1, 2, 3
\* in that order, and the request after them ends with CatalogExhausted.
C16_FreeFollowsCursor ==
    \A r \in FreeReq :
        (req[r].pc = "done" /\ \A q \in 1..(r - 1) : req[q].outcome = "Delivered")
        => IF r \in ScenarioItems
           THEN req[r].outcome = "Delivered" =>
                   \A i \in DOMAIN sent : sent[i].req = r => sent[i].id = r
           ELSE req[r].outcome = "CatalogExhausted"

\* C18: after a completed /start of a user who held no entitlement record
\* and has been sent nothing yet, for every configured subject an
\* entitlement record of that user exists with a positive remaining_count
\* and the cursor at 0.
C18_FreeRecordAfterRegistration ==
    \A r \in Req :
        ( /\ req[r].outcome = "Registered"
          /\ sent = <<>>
          /\ \A k \in AccessKeys : k[1] = req[r].user => ~access0[k].present )
        => \A subj \in SubjectNames :
              \E k \in AccessKeys :
                 /\ k[1] = req[r].user
                 /\ k[2] \in {subj, subject_map_reverse(subj)}
                 /\ user_access[k].present
                 /\ user_access[k].remaining_count > 0
                 /\ user_access[k].last_special_test_id = 0

\* C21: a paid-tier request that ended with the failure message has not been
\* consumed: its decrement of remaining_count and its cursor write have not
\* taken effect.
C21_FailureNotConsumed ==
    \A r \in Req :
        (req[r].tier = "special" /\ req[r].outcome = "Failed")
           => ~req[r].committed

\* C22: a non-privileged paid-tier request is checked for cooldown, then for
\* quota, then for an item, and the first check that fails names the denial:
\* an active cooldown denies with CooldownActive whatever the record holds;
\* with no active cooldown, an absent record or remaining_count <= 0 denies
\* with QuotaExhausted whatever the catalog holds; only then the selection
\* runs.  A privileged request enters none of these checks.
C22_Step ==
    \A r \in Req :
        (req'[r] # req[r] /\ req'[r].tier = "special")
        => LET access == user_access[<<req[r].user, req[r].subject_name, "special">>]
           IN /\ req[r].pc = "idle" =>
                    req'[r].pc = IF req'[r].user \in ADMIN_IDS THEN "admin"
                                 ELSE "check_cooldown"
              /\ req[r].pc = "check_cooldown" =>
                    IF CooldownActiveFor(r)
                    THEN req'[r].pc = "done" /\ req'[r].outcome = "CooldownActive"
                    ELSE req'[r].pc = "check_access"
              /\ req[r].pc = "check_access" =>
                    IF ~access.present \/ access.remaining_count <= 0
                    THEN req'[r].pc = "done" /\ req'[r].outcome = "QuotaExhausted"
                    ELSE req'[r].pc = "select"
              /\ req[r].pc = "select" =>
                    \/ req'[r].pc = "done" /\ req'[r].outcome = "CatalogExhausted"
                    \/ req'[r].pc = "send"
              /\ req'[r].pc \in {"check_cooldown", "check_access", "select"} =>
                    req'[r].user \notin ADMIN_IDS

C22_CheckOrder == [][C22_Step]_vars

C22_Witness ==
    \E r \in Req :
        /\ req[r].tier = "special"
        /\ req[r].outcome = "CooldownActive"
        /\ CooldownActiveFor(r)
        /\ user_access[<<req[r].user, req[r].subject_name, "special">>].present
        /\ user_access[<<req[r].user, req[r].subject_name, "special">>].remaining_count = 0
        /\ PremiumAfter(req[r].subject_name, "special",
              user_access[<<req[r].user, req[r].subject_name, "special">>].last_special_test_id)
             = {}

\* C24: a step that denies a request with QuotaExhausted or CatalogExhausted
\* sends nothing and changes no table; such a request has been sent nothing
\* and has written nothing; and a cooldown deadline changes only in the step
\* that ends a request as Delivered, after its item was sent.
C24_Step ==
    /\ \A r \in Req :
          ( /\ req'[r] # req[r]
            /\ req'[r].outcome \in {"QuotaExhausted", "CatalogExhausted"} )
          => sent' = sent /\ db' = db
    /\ user_cooldowns' # user_cooldowns =>
          \E r \in Req : /\ req[r].pc = "set_cooldown"
                         /\ req'[r].outcome = "Delivered"
                         /\ Served(r)

C24_Denied ==
    \A r \in Req :
        req[r].outcome \in {"QuotaExhausted", "CatalogExhausted"}
           => ~Served(r) /\ ~req[r].committed

C24_DenialChangesNothing == [][C24_Step]_vars /\ []C24_Denied

C24_Witness ==
    /\ \E r \in Req : req[r].outcome = "QuotaExhausted"
    /\ \E r \in Req : req[r].outcome = "CatalogExhausted"
    /\ user_access = access0
    /\ user_access[<<"U1", "Matematika", "special">>].present
    /\ \A k \in CooldownKeys : ~user_cooldowns[k].present
    /\ sent = <<>>

\* C25: the step that sets the cooldown of a free-tier delivery leaves
\* user_access alone and keeps the paid-tier deadline of an existing row (a
\* row it creates gets a paid-tier deadline in the past); the step of a
\* paid-tier delivery does the same for the free-tier deadline; neither
\* touches a row of another user or subject; and a request is denied with
\* CooldownActive only by the deadline of its own tier.
C25_Step ==
    \A r \in Req :
        (req[r].pc = "set_cooldown" /\ req'[r] # req[r])
        => LET key == <<req[r].user, req[r].subject_name>>
               old == user_cooldowns[key]
               new == user_cooldowns'[key]
           IN /\ \A k \in CooldownKeys \ {key} : user_cooldowns'[k] = user_cooldowns[k]
              /\ user_access' = user_access
              /\ new # old =>
                    IF req[r].tier = "free"
                    THEN IF old.present
                         THEN new.next_special_time = old.next_special_time
                         ELSE new.next_special_time <= clock
                    ELSE IF old.present
                         THEN new.next_free_time = old.next_free_time
                         ELSE new.next_free_time <= clock

C25_Denied ==
    \A r \in Req :
        (req[r].pc = "check_cooldown" /\ req'[r].outcome = "CooldownActive")
           => CooldownActiveFor(r)

C25_CooldownPerTier == [][C25_Step /\ C25_Denied]_vars

C25_Witness ==
    \E r, q \in Req :
        LET row == user_cooldowns[<<req[r].user, req[r].subject_name>>]
        IN /\ req[r].tier = "special"
           /\ req[r].outcome = "Delivered"
           /\ row.present
           /\ req[r].now < row.next_free_time
           /\ row.next_special_time = req[r].now + CooldownHours
           /\ req[q].tier = "free"
           /\ req[q].outcome = "Delivered"
           /\ req[q].subject_name = req[r].subject_name
           /\ \A k \in CooldownKeys \cup AccessKeys :
                 (k[1] = "U1" /\ k[2] = "Informatika")
                 => IF k \in CooldownKeys
                    THEN /\ user_cooldowns[k].present
                         /\ user_cooldowns[k].next_free_time = -OneDayHours
                         /\ user_cooldowns[k].next_special_time = -OneDayHours
                    ELSE user_access[k] = access0[k]

\* C27: a request that was sent an item is not also answered with the
\* failure message.
C27_OneOutcome ==
    \A r \in Req : req[r].outcome = "Failed" => ~Served(r)

\* C28: the grant command reports a failure only when the access row of the
\* target was left as it was.
C28_ReportMatchesLedger ==
    lastGrant.report = "failure" => ~lastGrant.applied

\* C26: when an administrator has sent /add_prem_test with a valid subject and
\* been asked for the file, the document the administrator uploads next adds an
\* item of that subject to the paid catalog, with an id above every id there.
C26_Step ==
    (/\ lastEvent.user \in ADMIN_IDS
     /\ lastEvent.kind = "add_prem_test"
     /\ lastEvent.answer = "upload"
     /\ events' = events + 1
     /\ lastEvent'.user = lastEvent.user
     /\ lastEvent'.kind = "document")
    => \E t \in premium_tests' \ premium_tests :
          /\ t.subject \in {lastEvent.arg, subject_map_reverse(lastEvent.arg)}
          /\ \A o \in premium_tests : o.id < t.id

C26_IngestedDeliverable == [][C26_Step]_vars

\* C30: a photo uploaded by the user who chose add_photo for an announcement
\* broadcasts the announcement once and clears the state of the dialogue.
C30_Step ==
    \A u \in UserIds :
        (/\ fsm[u].state = "waiting_for_photo"
         /\ lastEvent = [user |-> u, kind |-> "add_photo", arg |-> "none",
                         answer |-> "upload_photo"]
         /\ events' = events + 1
         /\ lastEvent'.user = u
         /\ lastEvent'.kind = "photo")
        => /\ Len(broadcasts') = Len(broadcasts) + 1
           /\ fsm'[u].state = "none"

C30_AnnouncementCompletes == [][C30_Step]_vars

\* C29: a step taken for a non-administrator (a message, upload or button
\* press, a /grant_access, or a step of the user's own button press or /start)
\* increases no remaining_count, adds no item to either catalog and sends no
\* broadcast; a message, upload or /grant_access of a non-administrator leaves
\* the whole database alone, and a step of the user's own request writes only
\* rows of that user.
C29_NoGain ==
    /\ \A k \in AccessKeys :
          user_access'[k].remaining_count <= user_access[k].remaining_count
    /\ tests' = tests
    /\ premium_tests' = premium_tests
    /\ broadcasts' = broadcasts

C29_OwnRowsOnly(u) ==
    /\ users' \subseteq users \cup {u}
    /\ \A k \in AccessKeys : k[1] # u => user_access'[k] = user_access[k]
    /\ \A k \in CooldownKeys : k[1] # u => user_cooldowns'[k] = user_cooldowns[k]

C29_Step ==
    /\ (events' # events /\ lastEvent'.user \in NonAdmins)
          => (C29_NoGain /\ UNCHANGED db)
    /\ (grants' # grants /\ lastGrant'.caller \in NonAdmins)
          => (C29_NoGain /\ UNCHANGED db)
    /\ \A r \in Req :
          (req'[r] # req[r] /\ req'[r].user \in NonAdmins)
          => (C29_NoGain /\ C29_OwnRowsOnly(req'[r].user))

C29_NonAdminsGainNothing == [][C29_Step]_vars

\* U2 has been refused /grant_access for itself and, as its latest message,
\* /announce, after U1 was served a paid item, while the administrator's own
\* announcement went out.
C29_Witness ==
    /\ lastGrant.caller = "U2" /\ lastGrant.report = "denied"
    /\ lastEvent = [user |-> "U2", kind |-> "announce", arg |-> "none",
                    answer |-> "denied"]
    /\ req[1].user = "U1" /\ req[1].outcome = "Delivered"
    /\ Len(broadcasts) = 1
    /\ user_access[<<"U2", "math", "special">>] = NoAccessRow
    /\ fsm["U2"] = NoSession

\* C23: with strictly sequential presses of U1, every paid item U1 is sent is
\* the item of the partition with the smallest id above the ids sent before:
\* ascending, with no repeat and no item skipped, also when rows are added
\* between the presses.
C23_InOrder ==
    \A j \in SentTo("U1", "Matematika", "special") :
        LET before == {sent[i].id : i \in {x \in SentTo("U1", "Matematika", "special") : x < j}}
            cursor == IF before = {} THEN 0
                      ELSE CHOOSE x \in before : \A y \in before : y <= x
        IN /\ sent[j].id > cursor
           /\ \A x \in PremiumAfter("Matematika", "special", cursor) : sent[j].id <= x

====
